---- MODULE Spec2Model ----
(***************************************************************************)
(* Model of ibllib.atlas.regions.BrainRegions: the lateralized region      *)
(* table, row lookup (get), tree navigation (ancestors / descendants),     *)
(* the construction of the mapping arrays and the remap / lookup methods.  *)
(*                                                                         *)
(* numpy arrays are functions over 0..n-1, so that positions are the       *)
(* positions of the Python code (void at 0, root at 1).                    *)
(***************************************************************************)
EXTENDS Integers, Sequences, FiniteSets, TLC

\* ------------------------------------------------------------------ bounds
\* number of regions below root in the structure tree that is read
NumRegions == 3
\* longest id sequence handed to get()
MaxIds == 2
\* most seed ids handed to ancestors() / descendants()
MaxSeeds == 2
\* largest depth value of a region row
MaxLevel == 2
\* most ids in the Beryl grouping file
MaxBeryl == 2
\* most ids in the Cosmos grouping file
MaxCosmos == 1
\* longest array passed to a remap or a lookup
MaxLookups == 1

\* ------------------------------------------------------- program constants
I_ROOT == 1
I_VOID == 0
\* the literal added to an index to reach the left hemisphere
LeftOffset == 1327
\* the value pandas gives an empty parent_structure_id cell; it equals no id
NaN == 100000

\* ------------------------------------------------------------ numpy arrays
\* An array holds values, not an expression: f @@ <<>> is f with every
\* element evaluated. The array operators below bind their arguments the
\* same way: {e : x \in {a}} evaluates a once and binds x to its value.
Array(f) == f @@ <<>>

TheOne(S) == CHOOSE v \in S : TRUE

Size(a) == Cardinality(DOMAIN a)

Range(a) == {a[i] : i \in DOMAIN a}

EmptyArray == [i \in {} |-> 0]

\* a[ix] with an integer index array: IndexError unless every index is in range
InBounds(a, ix) == \A k \in DOMAIN ix : ix[k] \in DOMAIN a

Take(a0, ix0) == TheOne({Array([k \in DOMAIN ix |-> a[ix[k]]]) : a \in {a0}, ix \in {ix0}})

\* the ascending array of the elements of a finite set of integers
Rank(S, v) == Cardinality({w \in S : w < v})

RankOf(T) == Array([v \in T |-> Rank(T, v)])

SortedArray(S) ==
    TheOne({Array([i \in 0..(Cardinality(DOMAIN r) - 1) |-> CHOOSE v \in DOMAIN r : r[v] = i]) :
            r \in {RankOf({v : v \in S})}})

\* np.where(mask)[0]
Where(mask) == SortedArray({i \in DOMAIN mask : mask[i]})

\* a[mask] with a boolean mask
Compress(a, mask) == Take(a, Where(mask))

\* np.sum(mask)
CountTrue(mask) == Cardinality({i \in DOMAIN mask : mask[i]})

\* np.concatenate / pd.concat of two arrays
Concat(a0, b0) ==
    TheOne({Array([i \in 0..(Size(a) + Size(b) - 1) |->
                     IF i < Size(a) THEN a[i] ELSE b[i - Size(a)]]) : a \in {a0}, b \in {b0}})

FirstIndex(a, v) == CHOOSE i \in DOMAIN a : a[i] = v /\ \A j \in 0..(i - 1) : a[j] # v

\* np.unique(a, return_inverse=True)
np_unique(a0) ==
    TheOne({[values  |-> SortedArray(R),
             inverse |-> Array([k \in DOMAIN a |-> Rank(R, a[k])])] :
            a \in {a0}, R \in {Range(a0)}})

\* np.intersect1d(a, b, return_indices=True): the sorted common values and
\* the index of the first occurrence of each in a and in b
np_intersect1d(a0, b0) ==
    TheOne({[values |-> common,
             ia     |-> Array([j \in DOMAIN common |-> FirstIndex(a, common[j])]),
             ib     |-> Array([j \in DOMAIN common |-> FirstIndex(b, common[j])])] :
            a \in {a0}, b \in {b0}, common \in {SortedArray(Range(a0) \cap Range(b0))}})

\* np.isin(a, b); NaN compares unequal to everything
np_isin(a0, b0) ==
    TheOne({Array([i \in DOMAIN a |-> a[i] # NaN /\ a[i] \in R]) : a \in {a0}, R \in {Range(b0)}})

\* iblutil.numerical.ismember(a, b): lia = np.isin(a, b) and, for the
\* elements of a found in b only, the index of their first occurrence in b
ismember(a0, b0) ==
    TheOne({[lia  |-> lia,
             locb |-> TheOne({Take(np_intersect1d(b, u.values).ia, u.inverse) :
                              u \in {np_unique(Compress(a, lia))}})] :
            a \in {a0}, b \in {b0}, lia \in {np_isin(a0, b0)}})

\* ------------------------------------------------- the structure tree file
\* ids of the rows of allen_structure_tree.csv: void, root, then the regions
RawId(p) ==
    CASE p = 0 -> 0
      [] p = 1 -> 997
      [] p > 1 /\ p % 2 = 0 -> 20 + p
      [] OTHER -> 10 + p

\* acronyms are kept as numbers in their sort order (np.unique sorts them);
\* the acronym of row p is distinct from every id
RawAcronym(p) == 200 + p

RawRows == 0..(NumRegions + 1)

RegionRows == 2..(NumRegions + 1)

\* a file: parentRow gives, for each region row, the row of its parent;
\* depth gives the depth column of the region rows. void and root have
\* depth 0 and an empty parent cell.
RawTable(parentRow, depth) ==
    [id      |-> [p \in RawRows |-> RawId(p)],
     acronym |-> [p \in RawRows |-> RawAcronym(p)],
     level   |-> [p \in RawRows |-> IF p \in RegionRows THEN depth[p] ELSE 0],
     parent  |-> [p \in RawRows |-> IF p \in RegionRows THEN RawId(parentRow[p]) ELSE NaN]]

Negate(x) == IF x = NaN THEN NaN ELSE 0 - x

\* BrainRegions.__init__: the rows with a positive id are copied with id and
\* parent negated and appended to the table
Lateralize(df) ==
    LET positive == [p \in DOMAIN df.id |-> df.id[p] > 0]
        left == [id      |-> [k \in DOMAIN Where(positive) |-> Negate(df.id[Where(positive)[k]])],
                 acronym |-> Compress(df.acronym, positive),
                 level   |-> Compress(df.level, positive),
                 parent  |-> [k \in DOMAIN Where(positive) |-> Negate(df.parent[Where(positive)[k]])]]
    IN  [id      |-> Concat(df.id, left.id),
         acronym |-> Concat(df.acronym, left.acronym),
         level   |-> Concat(df.level, left.level),
         parent  |-> Concat(df.parent, left.parent)]

\* ------------------------------------------------------------------- state
VARIABLES
    id, acronym, level, parent,   \* the fields of the BrainRegions instance
    mappings,                     \* self.mappings: scheme name -> index array
    beryl, cosmos,                \* the contents of beryl.npy and cosmos.npy
    file_mappings,                \* the table stored in FILE_MAPPINGS
    pc,                           \* the method that is running, "idle" if none
    args,                         \* the arguments of the running / last call
    ret,                          \* what the last call returned or raised
    indices, count,               \* locals of _navigate_tree
    newmap, step                  \* _compute_mappings: the dict being evaluated

vars == <<id, acronym, level, parent, mappings, beryl, cosmos, file_mappings,
          pc, args, ret, indices, count, newmap, step>>

files == <<beryl, cosmos, file_mappings>>

store == <<id, acronym, level, parent>>

Positions == DOMAIN id

NoCall == [op |-> "none"]

NoResult == [tag |-> "none"]

\* --------------------------------------------------------------------- get
\* get without the inverse index: the rows of the sorted unique ids
GetIndexNoInverse(ids) ==
    TheOne({[iself |-> iself, uind |-> Array([k \in DOMAIN iself |-> k])] :
            iself \in {np_intersect1d(id, np_unique(ids).values).ia}})

\* BrainRegions.get, the index array iself[uind]; it is out of range, and the
\* fancy indexing raises IndexError, when uind reaches past iself
GetIndex(ids) ==
    TheOne({[iself |-> np_intersect1d(id, u.values).ia, uind |-> u.inverse] :
            u \in {np_unique(ids)}})

Bunch(rows0) ==
    TheOne({[tag     |-> "Bunch",
             id      |-> Take(id, rows),
             acronym |-> Take(acronym, rows),
             level   |-> Take(level, rows),
             parent  |-> Take(parent, rows)] : rows \in {rows0}})

get(ids) ==
    TheOne({IF InBounds(g.iself, g.uind)
            THEN Bunch(Take(g.iself, g.uind))
            ELSE [tag |-> "IndexError"] : g \in {GetIndex(ids)}})

\* -------------------------------------------------------- _navigate_tree
Or(a0, b0) == TheOne({Array([i \in DOMAIN m1 |-> m1[i] \/ m2[i]]) : m1 \in {a0}, m2 \in {b0}})

Directions == {"down", "up"}

\* a pass that, going up, matches the parent column against itself: it adds
\* the siblings of the selected regions, not their parents
NavExpandSiblings(ind, direction) ==
    IF direction = "down"
    THEN Or(ind, np_isin(parent, Compress(id, ind)))
    ELSE Or(ind, np_isin(parent, Compress(parent, ind)))

\* a test that leaves the loop although the pass found new positions
NavFixedEarly(cnt, ind) == cnt <= CountTrue(ind)

\* one pass of the while loop: indices |= ismember(...)[0]
NavExpand(ind, direction) ==
    IF direction = "down"
    THEN Or(ind, np_isin(parent, Compress(id, ind)))
    ELSE Or(ind, np_isin(id, Compress(parent, ind)))

\* the test that leaves the loop: count == np.sum(indices)
NavFixed(cnt, ind) == cnt = CountTrue(ind)

RECURSIVE NavLoop(_, _, _)
NavLoop(ind, cnt, direction) ==
    TheOne({IF NavFixed(cnt, nxt) THEN nxt ELSE NavLoop(nxt, CountTrue(nxt), direction) :
            nxt \in {NavExpand(ind, direction)}})

navigate_tree(ids, direction) ==
    IF direction \notin Directions
    THEN [tag |-> "ValueError"]
    ELSE TheOne({get(Compress(id, NavLoop(ind, CountTrue(ind), direction))) :
                 ind \in {np_isin(id, ids)}})

descendants(ids) == navigate_tree(ids, "down")

ancestors(ids) == navigate_tree(ids, "up")

\* --------------------------------------------- _mapping_from_regions_list
Abs(x) == IF x < 0 THEN 0 - x ELSE x

\* np.argsort leaves the order of equal keys open (its default kind is not
\* stable): tie = "first" keeps equal keys in index order, "last" reverses them
TieOrders == {"first", "last"}

Before(a, tie, j, i) ==
    \/ a[j] < a[i]
    \/ a[j] = a[i] /\ (IF tie = "first" THEN j < i ELSE j > i)

\* an argsort that puts the largest key first
np_argsort_descending(a0, tie) ==
    TheOne({Array([k \in DOMAIN a |->
                CHOOSE i \in DOMAIN a :
                    Cardinality({j \in DOMAIN a : Before(a, tie, i, j)}) = k]) : a \in {a0}})

np_argsort(a0, tie) ==
    TheOne({Array([k \in DOMAIN a |->
                CHOOSE i \in DOMAIN a :
                    Cardinality({j \in DOMAIN a : Before(a, tie, j, i)}) = k]) : a \in {a0}})

\* new_map = np.unique(np.r_[-new_map, new_map])
Symmetrize(new_map) ==
    np_unique(Concat([k \in DOMAIN new_map |-> 0 - new_map[k]], new_map)).values

\* the assertion np.all(np.isin(new_map, self.id))
SchemeValid(new_map) == \A in_id \in {np_isin(new_map, id)} : \A k \in DOMAIN in_id : in_id[k]

\* the positions of the scheme's regions: np.where(ismember(self.id, new_map)[0])[0]
SchemePositions(new_map) == Where(ismember(id, new_map).lia)

\* mapind[idesc] = iid[i] for the descendants of the region at position m
AssignSubtree(mapind0, m0) ==
    TheOne({Array([p \in DOMAIN mapind |-> IF p \in idesc THEN m ELSE mapind[p]]) :
            mapind \in {mapind0},
            m \in {m0},
            idesc \in {Range(np_intersect1d(id, descendants([k \in {0} |-> id[m0]]).id).ia)}})

\* the for loop over np.argsort(self.level[iid]), from its k-th round on
RECURSIVE AssignLoop(_, _, _, _)
AssignLoop(mapind0, iid0, order0, k) ==
    TheOne({IF k = Size(order)
            THEN mapind
            ELSE AssignLoop(AssignSubtree(mapind, iid[order[k]]), iid, order, k + 1) :
            mapind \in {mapind0}, iid \in {iid0}, order \in {order0}})

\* mapind = mapind[iregion], iregion the position of abs(id)
Delateralize(mapind) ==
    Take(mapind, ismember([p \in DOMAIN id |-> Abs(id[p])], id).locb)

\* a build that leaves position 0 as the loop left it
PinVoidSkipped(mapind) == mapind

\* mapind[0] = I_VOID
PinVoid(mapind) == [mapind EXCEPT ![0] = I_VOID]

\* mapind = np.zeros_like(self.id) + I_ROOT; mapind[iid] = iid
SelfMap(iid) == Array([p \in DOMAIN id |-> IF p \in Range(iid) THEN p ELSE I_ROOT])

mapping_from_regions_list(new_map0, lateralize, tie) ==
    IF ~SchemeValid(Symmetrize(new_map0))
    THEN [tag |-> "AssertionError"]
    ELSE TheOne({[tag    |-> "ok",
                  mapind |-> IF lateralize THEN mapind ELSE Delateralize(mapind)] :
                 mapind \in {TheOne({PinVoid(AssignLoop(SelfMap(iid), iid,
                                                       np_argsort(Take(level, iid), tie), 0)) :
                                     iid \in {SchemePositions(Symmetrize(new_map0))}})}})

\* ------------------------------------------------------ _compute_mappings
SchemeNames == <<"Allen", "Allen-lr", "Beryl", "Beryl-lr", "Cosmos", "Cosmos-lr">>

Lateralized == {"Allen-lr", "Beryl-lr", "Cosmos-lr"}

\* np.unique(np.abs(self.id))
AllenIds == np_unique([p \in DOMAIN id |-> Abs(id[p])]).values

\* the value of one entry of the dict literal, from the files b and c
MappingEntry(name, b, c, tie) ==
    CASE name = "Allen"     -> mapping_from_regions_list(AllenIds, FALSE, tie)
      [] name = "Allen-lr"  -> [tag |-> "ok", mapind |-> [p \in DOMAIN id |-> p]]
      [] name = "Beryl"     -> mapping_from_regions_list(b, FALSE, tie)
      [] name = "Beryl-lr"  -> mapping_from_regions_list(b, TRUE, tie)
      [] name = "Cosmos"    -> mapping_from_regions_list(c, FALSE, tie)
      [] name = "Cosmos-lr" -> mapping_from_regions_list(c, TRUE, tie)

\* the table an earlier run of _compute_mappings wrote to FILE_MAPPINGS
ComputedMappings(b, c, tie) ==
    [n \in Range(SchemeNames) |-> MappingEntry(n, b, c, tie).mapind]

\* -------------------------------------------------------------------- remap
\* a remap that returns the positions it found instead of their ids
remap_positions(region_ids, source_map, target_map) ==
    Take(mappings[target_map],
         ismember(region_ids, Take(id, mappings[source_map])).locb)

remap(region_ids, source_map, target_map) ==
    Take(id, Take(mappings[target_map],
                  ismember(region_ids, Take(id, mappings[source_map])).locb))

remap_id2id(atlas_ids, source_map, target_map) ==
    Take(id, Take(mappings[target_map],
                  ismember(atlas_ids, Take(id, mappings[source_map])).locb))

\* a lookup by acronym that returns the positions it found instead of their ids
remap_acro2id_positions(acronyms, source_map, target_map) ==
    Take(mappings[target_map],
         ismember(acronyms, Take(acronym, mappings[source_map])).locb)

remap_acro2id(acronyms, source_map, target_map) ==
    Take(id, Take(mappings[target_map],
                  ismember(acronyms, Take(acronym, mappings[source_map])).locb))

remap_id2acro(atlas_ids, source_map, target_map) ==
    Take(acronym, Take(mappings[target_map],
                       ismember(atlas_ids, Take(id, mappings[source_map])).locb))

\* ---------------------------------------------------------- acronym2atlasID
\* hemisphere None
None == "None"

Hemispheres == {"left", "right", None}

\* '-lr' in mapping
IsLr(mapping) == mapping \in Lateralized

_infer_mapping(mapping, hemisphere) ==
    IF IsLr(mapping) THEN mapping
    ELSE IF hemisphere = None THEN mapping
    ELSE SchemeNames[1 + CHOOSE k \in 1..Len(SchemeNames) : SchemeNames[k] = mapping]

\* ismember(np.array(values), all_values)[1]
_find_inds(values, all_values) == ismember(values, all_values).locb

Shift(values, offset) == Array([k \in DOMAIN values |-> values[k] + offset])

\* the index arrays to read: one column, or np.c_[left, right]
_filter_lr_acro(values, mapping, hemisphere) ==
    IF hemisphere = "left" THEN <<Shift(values, LeftOffset)>>
    ELSE IF hemisphere = "right" THEN <<values>>
    ELSE IF IsLr(mapping) THEN <<Shift(values, LeftOffset), values>>
    ELSE <<values>>

\* self.id[self.mappings[mapping]][...]: an index past the end of the array
\* raises IndexError
acronym2atlasID(acronyms, mapping0, hemisphere) ==
    TheOne({IF \A c \in DOMAIN cols : InBounds(table, cols[c])
            THEN [tag |-> "array", columns |-> [c \in DOMAIN cols |-> Take(table, cols[c])]]
            ELSE [tag |-> "IndexError"] :
            table \in {Take(id, mappings[_infer_mapping(mapping0, hemisphere)])},
            cols \in {_filter_lr_acro(_find_inds(acronyms, acronym),
                                      _infer_mapping(mapping0, hemisphere), hemisphere)}})

\* ------------------------------------------------------------ input files
\* the parent of a region row is root or another region row
ParentRows == {pr \in [RegionRows -> 1..(NumRegions + 1)] : \A p \in RegionRows : pr[p] # p}

\* the row reached from row p by k parent steps (root is its own end)
RECURSIVE Up(_, _, _)
Up(pr, p, k) == IF k = 0 \/ p = 1 THEN p ELSE Up(pr, pr[p], k - 1)

TreeParents == {pr \in ParentRows : \A p \in RegionRows : Up(pr, p, NumRegions) = 1}

TrueDepth(pr, p) == CHOOSE k \in 1..NumRegions : Up(pr, p, k) = 1 /\ Up(pr, p, k - 1) # 1

\* structure trees whose depth column is the distance from root
TreeFiles == {RawTable(pr, [p \in RegionRows |-> TrueDepth(pr, p)]) : pr \in TreeParents}

\* trees whose rows list every parent before its children
PreorderParents == {pr \in TreeParents : \A p \in RegionRows : pr[p] < p}

\* the depth columns that are at most the distance from root and do not
\* decrease away from root (they may repeat along a branch)
DepthColumns(pr) ==
    {d \in [RegionRows -> 1..MaxLevel] :
        \A p \in RegionRows : d[p] <= TrueDepth(pr, p) /\ (pr[p] # 1 => d[pr[p]] <= d[p])}

\* trees whose rows list every region before its parent
ChildFirstParents == {pr \in ParentRows : \A p \in RegionRows : pr[p] = 1 \/ pr[p] > p}

\* structure trees with such a depth column, rows in either order
LevelledFiles ==
    UNION {{RawTable(pr, d) : d \in DepthColumns(pr)} :
           pr \in PreorderParents \cup ChildFirstParents}

\* files whose parent column may hold a cycle: the parent of a row is any
\* earlier row or the row that follows it
LoopParents == {pr \in ParentRows : \A p \in RegionRows : pr[p] <= p + 1}

LoopFiles == {RawTable(pr, [p \in RegionRows |-> 1]) : pr \in LoopParents}

\* an id no row of the file carries
AbsentIds == {4}

\* the arrays of 1..n distinct elements of S, ascending
Subarrays(S, n) == {SortedArray(T) : T \in {U \in SUBSET S : Cardinality(U) \in 1..n}}

\* the arrays of 1..n elements of S, in any order, repeats allowed
Arrays(S, n) == UNION {[0..(m - 1) -> S] : m \in 1..n}

RootOnly == [k \in {0} |-> RawId(1)]

\* BrainRegions.__init__ up to super().__init__: the table of file f,
\* lateralized; the mapping table is not read yet
Constructed(f) ==
    /\ id = Lateralize(f).id
    /\ acronym = Lateralize(f).acronym
    /\ level = Lateralize(f).level
    /\ parent = Lateralize(f).parent
    /\ mappings = EmptyArray
    /\ file_mappings = EmptyArray
    /\ pc = "packaging"
    /\ args = NoCall
    /\ ret = NoResult
    /\ indices = EmptyArray
    /\ count = 0
    /\ newmap = EmptyArray
    /\ step = 0

\* FILE_MAPPINGS as the package ships it: the table _compute_mappings wrote
\* for this structure tree when the grouping files were b0 and c0
ShipMappings(b0, c0, tie) ==
    /\ pc = "packaging"
    /\ SchemeValid(Symmetrize(b0))
    /\ SchemeValid(Symmetrize(c0))
    /\ file_mappings' = ComputedMappings(b0, c0, tie)
    /\ pc' = "init"
    /\ UNCHANGED <<store, mappings, beryl, cosmos, args, ret, indices, count, newmap, step>>

\* the end of __init__: self.mappings is read from FILE_MAPPINGS
ReadMappings ==
    /\ pc = "init"
    /\ mappings' = file_mappings
    /\ pc' = "idle"
    /\ UNCHANGED <<store, files, args, ret, indices, count, newmap, step>>

IdPool == Range(id) \cup AbsentIds

\* the caller takes the result of the call that returned or raised
Resume ==
    /\ pc = "returned"
    /\ pc' = "idle"
    /\ args' = NoCall
    /\ ret' = NoResult
    /\ indices' = EmptyArray
    /\ count' = 0
    /\ UNCHANGED <<store, mappings, files, newmap, step>>

\* ----------------------------------------------------------- calls of get
Get(ids) ==
    /\ pc = "idle"
    /\ args' = [op |-> "get", ids |-> ids]
    /\ ret' = get(ids)
    /\ pc' = "returned"
    /\ UNCHANGED <<store, mappings, files, indices, count, newmap, step>>

InitGet ==
    /\ beryl = RootOnly
    /\ cosmos = RootOnly
    /\ \E f \in TreeFiles : Constructed(f)

NextGet ==
    \/ ShipMappings(RootOnly, RootOnly, "first")
    \/ ReadMappings
    \/ pc = "idle" /\ \E ids \in Arrays(IdPool, MaxIds) : Get(ids)
    \/ Resume

SpecGet == InitGet /\ [][NextGet]_vars

\* ------------------------------------- calls of ancestors and descendants
NavCall(ids, direction) ==
    /\ pc = "idle"
    /\ pc' = "navigate"
    /\ args' = [op |-> "navigate_tree", ids |-> ids, direction |-> direction]
    /\ ret' = NoResult
    /\ indices' = np_isin(id, ids)
    /\ count' = CountTrue(np_isin(id, ids))
    /\ UNCHANGED <<store, mappings, files, newmap, step>>

\* one round of the while loop
NavPass ==
    /\ pc = "navigate"
    /\ IF args.direction \notin Directions
       THEN /\ ret' = [tag |-> "ValueError"]
            /\ pc' = "returned"
            /\ UNCHANGED <<indices, count>>
       ELSE \E expanded \in {NavExpand(indices, args.direction)} :
                /\ indices' = expanded
                /\ IF NavFixed(count, expanded)
                   THEN pc' = "navigate_return" /\ UNCHANGED count
                   ELSE pc' = "navigate" /\ count' = CountTrue(expanded)
                /\ UNCHANGED ret
    /\ UNCHANGED <<store, mappings, files, args, newmap, step>>

NavReturn ==
    /\ pc = "navigate_return"
    /\ ret' = get(Compress(id, indices))
    /\ pc' = "returned"
    /\ UNCHANGED <<store, mappings, files, args, indices, count, newmap, step>>

\* the seeds of the calls: the unsigned ids, the left-hemisphere copies of
\* root and of one region, and an id the table does not have
SeedPool == {x \in Range(id) : x >= 0} \cup {0 - RawId(1), 0 - RawId(2)} \cup AbsentIds

InitNav ==
    /\ beryl = RootOnly
    /\ cosmos = RootOnly
    /\ \E f \in LoopFiles : Constructed(f)

NextNav ==
    \/ ShipMappings(RootOnly, RootOnly, "first")
    \/ ReadMappings
    \/ pc = "idle" /\ \E ids \in Subarrays(SeedPool, MaxSeeds),
                          direction \in Directions \cup {"sideways"} : NavCall(ids, direction)
    \/ NavPass
    \/ NavReturn
    \/ Resume

SpecNav == InitNav /\ [][NextNav]_vars

\* the loop and the return run on once the call is made
FairSpecNav == SpecNav /\ WF_vars(NavPass) /\ WF_vars(NavReturn)

\* ------------------------------------ calls of _mapping_from_regions_list
\* the ids a grouping file may list: the unsigned ids of the table and an
\* id the table does not have
SchemePool == {x \in Range(id) : x > 0} \cup AbsentIds

Build(new_map, lateralize, tie) ==
    /\ pc = "idle"
    /\ pc' = "returned"
    /\ args' = [op |-> "mapping_from_regions_list", new_map |-> new_map,
                lateralize |-> lateralize]
    /\ ret' = mapping_from_regions_list(new_map, lateralize, tie)
    /\ UNCHANGED <<store, mappings, files, indices, count, newmap, step>>

InitBuild ==
    /\ beryl = RootOnly
    /\ cosmos = RootOnly
    /\ \E f \in LevelledFiles \cup TreeFiles : Constructed(f)

NextBuild ==
    \/ ShipMappings(RootOnly, RootOnly, "first")
    \/ ReadMappings
    \/ pc = "idle" /\ \E new_map \in Subarrays(SchemePool, MaxBeryl) \cup {AllenIds},
                          lateralize \in BOOLEAN, tie \in TieOrders :
                          Build(new_map, lateralize, tie)
    \/ Resume

SpecBuild == InitBuild /\ [][NextBuild]_vars

\* ------------------------------------------------ calls of _compute_mappings
\* the ids the grouping files may list: root, a region, an id the table lacks
GroupingPool == {RawId(1), RawId(2)} \cup AbsentIds

PreorderFiles ==
    {RawTable(pr, [p \in RegionRows |-> TrueDepth(pr, p)]) : pr \in PreorderParents}

\* beryl = np.load(FILE_BERYL); cosmos = np.load(FILE_COSMOS)
CMCall ==
    /\ pc = "idle"
    /\ pc' = "compute_mappings"
    /\ args' = [op |-> "compute_mappings"]
    /\ ret' = NoResult
    /\ newmap' = EmptyArray
    /\ step' = 0
    /\ UNCHANGED <<store, mappings, files, indices, count>>

\* a rebuild that stores every entry in self.mappings as soon as it is built
CMEntryInPlace(tie) ==
    /\ pc = "compute_mappings"
    /\ step < Len(SchemeNames)
    /\ \E e \in {MappingEntry(SchemeNames[step + 1], beryl, cosmos, tie)} :
          IF e.tag = "ok"
          THEN /\ newmap' = (SchemeNames[step + 1] :> e.mapind) @@ newmap
               /\ mappings' = (SchemeNames[step + 1] :> e.mapind) @@ mappings
               /\ step' = step + 1
               /\ UNCHANGED <<pc, ret>>
          ELSE /\ ret' = [tag |-> "AssertionError"]
               /\ pc' = "returned"
               /\ newmap' = EmptyArray
               /\ step' = 0
               /\ UNCHANGED mappings
    /\ UNCHANGED <<store, files, args, indices, count>>

\* the next entry of the dict literal is evaluated; the assertion of
\* _mapping_from_regions_list ends the call and drops the entries built
CMEntry(tie) ==
    /\ pc = "compute_mappings"
    /\ step < Len(SchemeNames)
    /\ \E e \in {MappingEntry(SchemeNames[step + 1], beryl, cosmos, tie)} :
          IF e.tag = "ok"
          THEN /\ newmap' = (SchemeNames[step + 1] :> e.mapind) @@ newmap
               /\ step' = step + 1
               /\ UNCHANGED <<pc, ret>>
          ELSE /\ ret' = [tag |-> "AssertionError"]
               /\ pc' = "returned"
               /\ newmap' = EmptyArray
               /\ step' = 0
    /\ UNCHANGED <<store, mappings, files, args, indices, count>>

\* self.mappings = {...}, once the literal is evaluated
CMAssign ==
    /\ pc = "compute_mappings"
    /\ step = Len(SchemeNames)
    /\ mappings' = newmap
    /\ pc' = "compute_mappings_save"
    /\ newmap' = EmptyArray
    /\ step' = 0
    /\ UNCHANGED <<store, files, args, ret, indices, count>>

\* pd.DataFrame(self.mappings).to_parquet(FILE_MAPPINGS)
CMSave ==
    /\ pc = "compute_mappings_save"
    /\ file_mappings' = mappings
    /\ ret' = [tag |-> "ok"]
    /\ pc' = "returned"
    /\ UNCHANGED <<store, mappings, beryl, cosmos, args, indices, count, newmap, step>>

InitRebuild ==
    /\ \E f \in PreorderFiles : Constructed(f)
    /\ beryl \in Subarrays(GroupingPool, MaxBeryl)
    /\ cosmos \in Subarrays(GroupingPool, MaxCosmos)

NextRebuild ==
    \/ pc = "packaging" /\ \E b0 \in {RootOnly, AllenIds} : ShipMappings(b0, RootOnly, "first")
    \/ ReadMappings
    \/ CMCall
    \/ \E tie \in TieOrders : CMEntry(tie)
    \/ CMAssign
    \/ CMSave
    \/ Resume

SpecRebuild == InitRebuild /\ [][NextRebuild]_vars

\* ----------------------------------------------------------- calls of remap
RemapOps == {"remap", "remap_id2id"}

\* the scheme pairs of the calls: every scheme onto itself, and the default
SchemePairs == {<<n, n>> : n \in Range(SchemeNames)} \cup {<<"Allen", "Beryl">>}

Remap(op, values, source_map, target_map) ==
    /\ pc = "idle"
    /\ pc' = "returned"
    /\ args' = [op |-> op, values |-> values,
                source_map |-> source_map, target_map |-> target_map]
    /\ ret' = [tag    |-> "array",
               values |-> IF op = "remap"
                          THEN remap(values, source_map, target_map)
                          ELSE remap_id2id(values, source_map, target_map)]
    /\ UNCHANGED <<store, mappings, files, indices, count, newmap, step>>

\* the caller turns ids into acronyms and the acronyms back into ids
RoundTrip(values, scheme) ==
    remap_acro2id(remap_id2acro(values, scheme, scheme), scheme, scheme)

RoundTripCall(values, scheme) ==
    /\ pc = "idle"
    /\ pc' = "returned"
    /\ args' = [op |-> "remap_id2acro, remap_acro2id", values |-> values,
                source_map |-> scheme, target_map |-> scheme]
    /\ ret' = [tag |-> "array", values |-> RoundTrip(values, scheme)]
    /\ UNCHANGED <<store, mappings, files, indices, count, newmap, step>>

InitRemap ==
    /\ beryl = RootOnly
    /\ cosmos = RootOnly
    /\ \E f \in PreorderFiles : Constructed(f)

NextRemap ==
    \/ pc = "packaging" /\ \E b0 \in Subarrays(GroupingPool \ AbsentIds, MaxBeryl),
                               tie \in TieOrders : ShipMappings(b0, RootOnly, tie)
    \/ ReadMappings
    \/ pc = "idle" /\ \E op \in RemapOps, values \in Arrays(IdPool, MaxLookups),
                          pair \in SchemePairs : Remap(op, values, pair[1], pair[2])
    \/ pc = "idle" /\ \E values \in Arrays(IdPool, MaxLookups),
                          scheme \in Range(SchemeNames) : RoundTripCall(values, scheme)
    \/ Resume

SpecRemap == InitRemap /\ [][NextRemap]_vars

\* ------------------------------------------------- calls of acronym2atlasID
\* an acronym no row of the table carries
AbsentAcronyms == {299}

AcronymPool == Range(acronym) \cup AbsentAcronyms

Lookup(acronyms, mapping, hemisphere) ==
    /\ pc = "idle"
    /\ pc' = "returned"
    /\ args' = [op |-> "acronym2atlasID", acronym |-> acronyms,
                mapping |-> mapping, hemisphere |-> hemisphere]
    /\ ret' = acronym2atlasID(acronyms, mapping, hemisphere)
    /\ UNCHANGED <<store, mappings, files, indices, count, newmap, step>>

InitLookup ==
    /\ beryl = RootOnly
    /\ cosmos = RootOnly
    /\ \E f \in PreorderFiles : Constructed(f)

NextLookup ==
    \/ pc = "packaging" /\ \E b0 \in Subarrays(GroupingPool \ AbsentIds, MaxBeryl) :
                               ShipMappings(b0, RootOnly, "first")
    \/ ReadMappings
    \/ pc = "idle" /\ \E acronyms \in Arrays(AcronymPool, MaxLookups),
                          mapping \in Range(SchemeNames),
                          hemisphere \in Hemispheres : Lookup(acronyms, mapping, hemisphere)
    \/ Resume

SpecLookup == InitLookup /\ [][NextLookup]_vars

\* ------------------------------------------------------------ properties
Present(ids) == Range(ids) \subseteq Range(id)

\* the position of the parent of the region at position p, -1 if it has none
StepUp(p) ==
    IF p # -1 /\ parent[p] # NaN /\ (\E q \in Positions : id[q] = parent[p])
    THEN CHOOSE q \in Positions : id[q] = parent[p]
    ELSE -1

\* the position reached from p by k parent steps
RECURSIVE UpChain(_, _)
UpChain(p, k) == IF k = 0 THEN p ELSE StepUp(UpChain(p, k - 1))

\* a is reached from p by at most k parent steps
RECURSIVE Within(_, _, _)
Within(a, p, k) ==
    \/ p = a
    \/ k > 0 /\ \E q \in {StepUp(p)} : q # -1 /\ Within(a, q, k - 1)

\* a is p or an ancestor of p
Encloses(a, p) == Within(a, p, Size(id))

SeedPositions(ids) == {p \in Positions : id[p] \in Range(ids)}

Closure(ids, direction) ==
    IF direction = "down"
    THEN {p \in Positions : \E s \in SeedPositions(ids) : Encloses(s, p)}
    ELSE {p \in Positions : \E s \in SeedPositions(ids) : Encloses(p, s)}

OnCycle(p) == \E k \in 1..Size(id) : UpChain(p, k) = p

\* C1: get(ids) with every id in the table returns len(ids) rows, and row k
\* is the row of the table whose id is ids[k]
C1_GetKeepsOrder ==
    (pc = "returned" /\ args.op = "get" /\ Present(args.ids)) =>
        /\ ret.tag = "Bunch"
        /\ DOMAIN ret.id = DOMAIN args.ids
        /\ \A k \in DOMAIN args.ids :
              \E p \in Positions :
                 /\ id[p] = args.ids[k]
                 /\ ret.id[k] = id[p]
                 /\ ret.acronym[k] = acronym[p]
                 /\ ret.level[k] = level[p]
                 /\ ret.parent[k] = parent[p]

\* get returned for two present ids given in descending (unsorted) order
C1_Witness ==
    /\ pc = "returned" /\ args.op = "get" /\ Present(args.ids)
    /\ Size(args.ids) = 2 /\ args.ids[0] > args.ids[1] /\ args.ids[1] < 0
    /\ ret.tag = "Bunch"

\* C2: get(ids) with an id that is not in the table does not raise and
\* returns the rows of the ids that are, in input order
C2_AbsentDropped ==
    (pc = "returned" /\ args.op = "get" /\ ~Present(args.ids)) =>
        /\ ret.tag = "Bunch"
        /\ ret.id = Compress(args.ids, np_isin(args.ids, id))

\* C3: descendants / ancestors of seeds in the table are exactly the regions
\* reached from a seed by zero or more child / parent steps, each once
C3_NavigateIsClosure ==
    (pc = "returned" /\ args.op = "navigate_tree" /\ args.direction \in Directions
                     /\ Present(args.ids)) =>
        \E closure \in {Closure(args.ids, args.direction)} :
            /\ ret.tag = "Bunch"
            /\ Range(ret.id) = {id[p] : p \in closure}
            /\ Size(ret.id) = Cardinality(closure)

\* descendants of one seed returned a region two child steps below it
C3_Witness ==
    /\ pc = "returned" /\ args.op = "navigate_tree" /\ args.direction = "down"
    /\ Size(args.ids) = 1 /\ Present(args.ids)
    /\ ret.tag = "Bunch"
    /\ \E p \in Positions : /\ id[p] \in Range(ret.id)
                             /\ UpChain(p, 2) # -1
                             /\ id[UpChain(p, 2)] = args.ids[0]

\* C10: the loop of _navigate_tree ends, cycle in the parent column or not:
\* a pass never drops a position, the mask stays within the table, the loop
\* is left at the first pass that adds nothing, and the call returns
C10_NavigateTerminates ==
    /\ [][(pc = "navigate" /\ pc' \in {"navigate", "navigate_return"}) =>
            /\ \A p \in Positions : indices[p] => indices'[p]
            /\ CountTrue(indices') <= Size(id)
            /\ (pc' = "navigate_return") <=> (indices' = indices)]_vars
    /\ (pc = "navigate") ~> (pc = "returned")

\* the loop ended after adding positions that lie on a cycle of parents
C10_Witness ==
    /\ pc = "navigate_return"
    /\ count > CountTrue(np_isin(id, args.ids))
    /\ \E p \in Positions : indices[p] /\ OnCycle(p)

\* the scheme's regions: a lateralized scheme holds both hemisphere copies
SchemeSet(new_map, lateralize) ==
    IF lateralize THEN Range(Symmetrize(new_map)) ELSE Range(new_map)

\* the number of parent steps from p to each region of S that is p or above p
StepsToMember(p, S) == {k \in 0..Size(id) : UpChain(p, k) # -1 /\ id[UpChain(p, k)] \in S}

\* the first region of S met from p within k parent steps, root if none is
RECURSIVE FirstMember(_, _, _)
FirstMember(p, S, k) ==
    IF p = -1 \/ k < 0 THEN I_ROOT
    ELSE IF id[p] \in S THEN p
    ELSE TheOne({FirstMember(q, S, k - 1) : q \in {StepUp(p)}})

\* the deepest region of S that is p or an ancestor of p, root if there is none
NearestMember(p, S) == FirstMember(p, S, Size(id))

BuiltLateralized ==
    /\ pc = "returned" /\ args.op = "mapping_from_regions_list"
    /\ args.lateralize /\ ret.tag = "ok"

MapsToNearest ==
    \A p \in Positions \ {0} :
        ret.mapind[p] = NearestMember(p, SchemeSet(args.new_map, TRUE))

\* level grows from every region to its children
StrictLevels == \A p \in Positions : StepUp(p) # -1 => level[StepUp(p)] < level[p]

\* C4 as claimed: with level merely non-decreasing away from root, the
\* lateralized array maps every position but 0 to the deepest scheme region
\* that is it or encloses it, to root if none does
C4_DeepestMemberAnyLevels == BuiltLateralized => MapsToNearest

\* C4 amended: the same, for tables whose level grows from parent to child
C4_DeepestMemberStrictLevels == (BuiltLateralized /\ StrictLevels) => MapsToNearest

\* a region below two nested scheme regions is mapped to the deeper one
C4_Witness ==
    /\ BuiltLateralized /\ StrictLevels
    /\ \E p \in Positions \ {0} :
          /\ Cardinality(StepsToMember(p, SchemeSet(args.new_map, TRUE))) >= 2
          /\ 0 \notin StepsToMember(p, SchemeSet(args.new_map, TRUE))
          /\ ret.mapind[p] = NearestMember(p, SchemeSet(args.new_map, TRUE))

\* C8: an array built, lateralized or not, maps position 0 to 0, and every
\* position to a position of the table that is a region of the scheme, root
\* or void
C8_MappingValues ==
    (pc = "returned" /\ args.op = "mapping_from_regions_list" /\ ret.tag = "ok") =>
        /\ DOMAIN ret.mapind = Positions
        /\ ret.mapind[0] = I_VOID
        /\ \A p \in Positions :
              /\ ret.mapind[p] \in Positions
              /\ \/ id[ret.mapind[p]] \in SchemeSet(args.new_map, args.lateralize)
                 \/ ret.mapind[p] \in {I_ROOT, I_VOID}

\* a lateralized array with a position left at root, which is no region of
\* the scheme, and a position mapped to a left-hemisphere region
C8_Witness ==
    /\ BuiltLateralized
    /\ id[I_ROOT] \notin SchemeSet(args.new_map, TRUE)
    /\ \E p \in Positions \ {0} : ret.mapind[p] = I_ROOT
    /\ \E p \in Positions : id[ret.mapind[p]] < 0

\* every id the grouping files list is an id of the table
GroupingsValid == SchemeValid(Symmetrize(beryl)) /\ SchemeValid(Symmetrize(cosmos))

\* the tables a rebuild from the grouping files can produce
IsRebuiltTable(t) ==
    /\ DOMAIN t = Range(SchemeNames)
    /\ \A n \in Range(SchemeNames) :
          \E tie \in TieOrders : t[n] = MappingEntry(n, beryl, cosmos, tie).mapind

\* C7: a rebuild fails exactly when a grouping file lists an id the table
\* does not have, every time it is attempted; the failing step, and every
\* step of a rebuild but the one assignment, leaves self.mappings and
\* FILE_MAPPINGS as they were; the assignment happens only when every scheme
\* was built and puts the whole rebuilt table in place
C7_RebuildAllOrNothing ==
    [][(args'.op = "compute_mappings") =>
          /\ (pc = "compute_mappings" /\ pc' = "returned") =>
                /\ ret'.tag = "AssertionError"
                /\ ~GroupingsValid
                /\ mappings' = mappings /\ file_mappings' = file_mappings
          /\ (pc = "compute_mappings" /\ ~GroupingsValid) =>
                pc' \in {"compute_mappings", "returned"}
          /\ (mappings' # mappings) =>
                /\ pc = "compute_mappings" /\ pc' = "compute_mappings_save"
                /\ GroupingsValid
                /\ IsRebuiltTable(mappings')
          /\ (file_mappings' # file_mappings) => file_mappings' = mappings
          /\ (pc = "compute_mappings_save") => ret'.tag = "ok"]_vars

\* a rebuild that failed at Cosmos after Beryl was built, with a Beryl column
\* in place that is not the one the rebuild had built
C7_Witness ==
    /\ pc = "returned" /\ args.op = "compute_mappings" /\ ret.tag = "AssertionError"
    /\ SchemeValid(Symmetrize(beryl))
    /\ mappings["Beryl-lr"] \notin
          {MappingEntry("Beryl-lr", beryl, cosmos, tie).mapind : tie \in TieOrders}

\* x is canonical in scheme: the scheme maps the position of x to itself
Canonical(x, scheme) == \E p \in Positions : id[p] = x /\ mappings[scheme][p] = p

AllCanonical(values, scheme) == \A k \in DOMAIN values : Canonical(values[k], scheme)

\* C5: remap (and remap_id2id) from a scheme to the same scheme returns ids
\* that are canonical in the scheme unchanged
C5_RemapSelfIdentity ==
    (/\ pc = "returned" /\ args.op \in RemapOps
     /\ args.source_map = args.target_map
     /\ AllCanonical(args.values, args.source_map)) => ret.values = args.values

\* remap of a canonical left-hemisphere region of Beryl-lr that other
\* positions are mapped to
C5_Witness ==
    /\ pc = "returned" /\ args.op = "remap"
    /\ args.source_map = "Beryl-lr" /\ args.target_map = "Beryl-lr"
    /\ ret.values = args.values
    /\ \E p, q \in Positions :
          /\ p > I_ROOT /\ q # p /\ id[p] < 0
          /\ args.values[0] = id[p]
          /\ mappings["Beryl-lr"][p] = p /\ mappings["Beryl-lr"][q] = p

\* C9: ids to acronyms and back, source and target the same scheme, applied
\* to its own result for canonical ids gives that result again
C9_RoundTripIdempotent ==
    (/\ pc = "returned" /\ args.op = "remap_id2acro, remap_acro2id"
     /\ AllCanonical(args.values, args.source_map)) =>
        RoundTrip(ret.values, args.source_map) = ret.values

\* the round trip of a canonical left-hemisphere id in a lateralized scheme:
\* its acronym is the right-hemisphere region's too, and comes back as that id
C9_Witness ==
    /\ pc = "returned" /\ args.op = "remap_id2acro, remap_acro2id"
    /\ args.source_map \in Lateralized
    /\ AllCanonical(args.values, args.source_map)
    /\ args.values[0] < 0
    /\ ret.values[0] = 0 - args.values[0]
    /\ RoundTrip(ret.values, args.source_map) = ret.values

\* the position of the left-hemisphere duplicate of the region at position p
LeftDuplicate(p) == CHOOSE q \in Positions : id[q] = 0 - id[p]

\* the position of the region that carries acronym a with a positive id
RightPosition(a) == CHOOSE p \in Positions : acronym[p] = a /\ id[p] > 0

\* C6 as claimed: for acronyms of positive-id regions, hemisphere left reads
\* the mapping at the left-hemisphere duplicate, right reads it at the
\* region itself, and no hemisphere on a lateralized scheme gives both, the
\* left value first
C6_LeftReadsDuplicate ==
    (/\ pc = "returned" /\ args.op = "acronym2atlasID"
     /\ \A k \in DOMAIN args.acronym :
           \E p \in Positions : acronym[p] = args.acronym[k] /\ id[p] > 0) =>
        \E m \in {_infer_mapping(args.mapping, args.hemisphere)} :
            \E left \in {[k \in DOMAIN args.acronym |->
                             id[mappings[m][LeftDuplicate(RightPosition(args.acronym[k]))]]]},
               right \in {[k \in DOMAIN args.acronym |->
                             id[mappings[m][RightPosition(args.acronym[k])]]]} :
                /\ ret.tag = "array"
                /\ ret.columns =
                      IF args.hemisphere = "left" THEN <<left>>
                      ELSE IF args.hemisphere = "right" THEN <<right>>
                      ELSE IF IsLr(m) THEN <<left, right>>
                      ELSE <<right>>

====
